---- MODULE Spec2Model ----
(***************************************************************************)
(* Model of the two batch jobs of the repository:                          *)
(*   generate_stats.py  - fetch, score/rank, render SVG, write file        *)
(*   update_fact.py     - rewrite the fun-fact line of README.md           *)
(*                                                                         *)
(* Real numbers are carried in fixed point.  A sub-score s in [0,1] is the *)
(* integer s*SCALE; a composite score is the integer score*SCALE*100,      *)
(* because the weights are kept in hundredths.  All integer divisions      *)
(* round towards minus infinity.                                           *)
(***************************************************************************)
EXTENDS Integers, Sequences, FiniteSets, TLC

VARIABLES
    \* ---- log_norm, evaluated on successive values ----
    ln_metric,      \* index into METRICS: which (median, spread) is used
    ln_value,       \* the value last passed to log_norm
    ln_sub,         \* log_norm(ln_value, ...) or NotYet
    ln_prev,        \* log_norm(ln_value - 1, ...) or NotYet
    \* ---- format_number ----
    fmt_n,          \* the argument n
    fmt_out,        \* the returned string as a sequence of characters
    \* ---- one run of generate_stats.main ----
    pc,             \* position of main
    token,          \* os.environ.get("GITHUB_TOKEN")
    output_path,    \* os.environ.get("OUTPUT_PATH", ...), as path components
    stats,          \* the dict returned by fetch_github_stats, or NoStats
    rank_label,     \* calculate_rank(stats)[0]
    rank_score,     \* calculate_rank(stats)[1]
    svg,            \* generate_svg(stats), or NoSvg
    net_calls,      \* number of urlopen calls made
    dirs,           \* directories that exist
    files,          \* paths written by this run, in order
    error,          \* which failure ended the run, "none" if none
    exit_code,      \* process exit status, Running while alive
    \* ---- repeated runs of update_fact.update_readme ----
    readme,         \* README.md as a sequence of lines
    new_fact,       \* the fact picked by the last run, 0 before any run
    fact_runs       \* number of runs made

vars == <<ln_metric, ln_value, ln_sub, ln_prev, fmt_n, fmt_out,
          pc, token, output_path, stats, rank_label, rank_score, svg,
          net_calls, dirs, files, error, exit_code,
          readme, new_fact, fact_runs>>

lnVars   == <<ln_metric, ln_value, ln_sub, ln_prev>>
fmtVars  == <<fmt_n, fmt_out>>
runVars  == <<pc, token, output_path, stats, rank_label, rank_score, svg,
              net_calls, dirs, files, error, exit_code>>
factVars == <<readme, new_fact, fact_runs>>

-----------------------------------------------------------------------------
(* Bounds of the model *)

MaxValue == 3000        \* log_norm is evaluated on 0..MaxValue
BigValue == 150000      \* the "very active user" sample of every metric
MaxRuns  == 3           \* update_readme runs per behaviour
MaxLines == 3           \* lines of the initial README.md

(* Fixed-point units *)

SCALE == 10000          \* units of 1.0 for sub-scores, ln, exp, tanh
LN2   == 6931           \* ln(2) in SCALE units, rounded down
SCORE_ONE == 100 * SCALE    \* units of 1.0 for the composite score

NotYet  == 0 - 1         \* "not computed yet" in a numeric variable
Running == 0 - 1         \* exit_code of a process that has not exited
NoStats == <<>>          \* stats before fetch_github_stats has returned
NoSvg   == <<>>          \* svg before generate_svg has returned

-----------------------------------------------------------------------------
(* math.log, math.tanh in fixed point *)

RECURSIVE FloorLog2(_)
FloorLog2(n) == IF n < 2 THEN 0 ELSE 1 + FloorLog2(n \div 2)

RECURSIVE Pow2(_)
Pow2(k) == IF k = 0 THEN 1 ELSE 2 * Pow2(k - 1)

\* sum over odd k <= 11 of u^k / k, u in SCALE units (the atanh series)
RECURSIVE AtanhSum(_, _, _)
AtanhSum(p, u, k) ==
    IF k > 11 THEN 0
    ELSE (p \div k) + AtanhSum(((((p * u) \div SCALE) * u) \div SCALE), u, k + 2)

\* math.log(n) for an integer n >= 1:
\* ln n = k ln 2 + 2 atanh((y - 1)/(y + 1)), y = n / 2^k in [1, 2);
\* y keeps the 17 leading bits of n
Ln(n) ==
    LET k  == FloorLog2(n)
        sh == IF k > 16 THEN k - 16 ELSE 0
        m  == n \div Pow2(sh)
        p  == Pow2(k - sh)
        u  == ((m - p) * SCALE) \div (m + p)
    IN  k * LN2 + 2 * AtanhSum(u, u, 1)

\* sum over k < 9 of r^k / k!, r in SCALE units (the exponential series)
RECURSIVE ExpSum(_, _, _)
ExpSum(t, r, k) ==
    IF k > 9 THEN 0
    ELSE t + ExpSum((t * r) \div (k * SCALE), r, k + 1)

\* math.tanh(y) = 1 - 2 / (e^(2y) + 1) for y >= 0, odd in y;
\* e^(2y) = 2^q e^r with 2y = q ln 2 + r; beyond q = 16 the result is 1.0
TanhPos(y) ==
    LET q == (2 * y) \div LN2
        r == (2 * y) % LN2
    IN  IF q > 16 THEN SCALE
        ELSE SCALE - ((2 * SCALE * SCALE) \div (ExpSum(SCALE, r, 1) * Pow2(q) + SCALE))

Tanh(y) == IF y < 0 THEN 0 - TanhPos(0 - y) ELSE TanhPos(y)

-----------------------------------------------------------------------------
(* calculate_rank *)

\* the seven terms of the weighted sum: stats key, median, spread (in
\* tenths) and weight (in hundredths)
METRICS == <<
    [key |-> "commits",        median |-> 250, spread10 |-> 15, weight |-> 30],
    [key |-> "prs",            median |-> 50,  spread10 |-> 15, weight |-> 20],
    [key |-> "issues",         median |-> 25,  spread10 |-> 15, weight |-> 10],
    [key |-> "reviews",        median |-> 10,  spread10 |-> 15, weight |-> 10],
    [key |-> "stars",          median |-> 50,  spread10 |-> 15, weight |-> 15],
    [key |-> "followers",      median |-> 10,  spread10 |-> 15, weight |-> 5],
    [key |-> "contributed_to", median |-> 5,   spread10 |-> 10, weight |-> 10] >>

\* 0.5 * (1 - tanh(...)): the sign of the tanh term flipped
log_norm_flipped(value, median, spread10) ==
    IF value <= 0 THEN 0
    ELSE LET log_val == Ln(value + 1)
             log_med == Ln(median + 1)
             z == ((log_val - log_med) * 10) \div spread10
         IN  (SCALE - Tanh((z * 7) \div 10)) \div 2

\* tanh(...) returned as it is, without 0.5 * (1 + ...)
log_norm_tanh(value, median, spread10) ==
    IF value <= 0 THEN 0
    ELSE LET log_val == Ln(value + 1)
             log_med == Ln(median + 1)
             z == ((log_val - log_med) * 10) \div spread10
         IN  Tanh((z * 7) \div 10)

\* ln(median) in place of ln(median + 1)
log_norm_median(value, median, spread10) ==
    IF value <= 0 THEN 0
    ELSE LET log_val == Ln(value + 1)
             log_med == Ln(median)
             z == ((log_val - log_med) * 10) \div spread10
         IN  (SCALE + Tanh((z * 7) \div 10)) \div 2

\* 0.5 * (1 + tanh(0.7 * (ln(value + 1) - ln(median + 1)) / spread))
log_norm(value, median, spread10) ==
    IF value <= 0 THEN 0
    ELSE LET log_val == Ln(value + 1)
             log_med == Ln(median + 1)
             z == ((log_val - log_med) * 10) \div spread10
         IN  (SCALE + Tanh((z * 7) \div 10)) \div 2

\* the weighted sum over METRICS[i..], in SCORE_ONE units
RECURSIVE WeightedSum(_, _)
WeightedSum(st, i) ==
    IF i > Len(METRICS) THEN 0
    ELSE log_norm(st[METRICS[i].key], METRICS[i].median, METRICS[i].spread10)
             * METRICS[i].weight
         + WeightedSum(st, i + 1)

\* (threshold in hundredths, label), highest first
ranks == <<
    [threshold |-> 95, label |-> "S+"],
    [threshold |-> 85, label |-> "S"],
    [threshold |-> 75, label |-> "A++"],
    [threshold |-> 65, label |-> "A+"],
    [threshold |-> 50, label |-> "A"],
    [threshold |-> 35, label |-> "B+"],
    [threshold |-> 20, label |-> "B"] >>

\* the scan with "score > threshold" in place of "score >= threshold"
RECURSIVE ScanRanks_strict(_, _)
ScanRanks_strict(score, i) ==
    IF i > Len(ranks) THEN "C"
    ELSE IF score > ranks[i].threshold * SCALE THEN ranks[i].label
    ELSE ScanRanks_strict(score, i + 1)

\* the for loop over ranks from index i: first threshold met, else "C"
RECURSIVE ScanRanks(_, _)
ScanRanks(score, i) ==
    IF i > Len(ranks) THEN "C"
    ELSE IF score >= ranks[i].threshold * SCALE THEN ranks[i].label
    ELSE ScanRanks(score, i + 1)

Min(a, b) == IF a <= b THEN a ELSE b

calculate_rank(st) ==
    LET score == WeightedSum(st, 1)
    IN  [label |-> ScanRanks(score, 1), score |-> Min(score, SCORE_ONE)]

-----------------------------------------------------------------------------
(* format_number *)

DIGITS == <<"0", "1", "2", "3", "4", "5", "6", "7", "8", "9">>

\* str(n) for n >= 0, as a sequence of characters
RECURSIVE Str(_)
Str(n) == IF n < 10 THEN <<DIGITS[n + 1]>>
          ELSE Append(Str(n \div 10), DIGITS[(n % 10) + 1])

\* (a * b) mod d without leaving 32 bits
RECURSIVE MulMod(_, _, _)
MulMod(a, b, d) ==
    IF b = 0 THEN 0
    ELSE (2 * MulMod(a, b \div 2, d) + (IF b % 2 = 1 THEN a % d ELSE 0)) % d

RECURSIVE PowMod2(_, _)
PowMod2(k, d) == IF k = 0 THEN 1 % d ELSE (2 * PowMod2(k - 1, d)) % d

\* sign of (the double nearest n / d) - n / d, for n >= d: the double keeps
\* 53 significant bits, so it is round(n 2^k / d) / 2^k with
\* k = 52 - floor(log2(n / d)), and the sign follows the remainder of
\* n 2^k modulo d
DivisionError(n, d) ==
    LET k == 52 - FloorLog2(n \div d)
        r == MulMod(n % d, PowMod2(k, d), d)
    IN  IF r = 0 THEN 0 ELSE IF 2 * r < d THEN 0 - 1 ELSE 1

\* f"{n / d:.1f}": the double n / d correctly rounded to one decimal, ties
\* of the double to the even digit; returns the number of tenths
Tenths(n, d) ==
    LET q   == (10 * (n % d)) \div d + 10 * (n \div d)
        rem == (10 * (n % d)) % d
    IN  IF 2 * rem < d THEN q
        ELSE IF 2 * rem > d THEN q + 1
        ELSE LET e == DivisionError(n, d)
             IN  IF e < 0 THEN q
                 ELSE IF e > 0 THEN q + 1
                 ELSE IF q % 2 = 0 THEN q ELSE q + 1

OneDecimal(t) == Str(t \div 10) \o <<".">> \o <<DIGITS[(t % 10) + 1]>>

\* the thresholds compared with > in place of >=
format_number_gt(n) ==
    IF n > 1000000 THEN OneDecimal(Tenths(n, 1000000)) \o <<"M">>
    ELSE IF n > 1000 THEN OneDecimal(Tenths(n, 1000)) \o <<"k">>
    ELSE Str(n)

format_number(n) ==
    IF n >= 1000000 THEN OneDecimal(Tenths(n, 1000000)) \o <<"M">>
    ELSE IF n >= 1000 THEN OneDecimal(Tenths(n, 1000)) \o <<"k">>
    ELSE Str(n)

-----------------------------------------------------------------------------
(* generate_svg *)

items == <<
    [icon |-> "star",    label |-> "Total Stars Earned", key |-> "stars"],
    [icon |-> "memo",    label |-> "Total Commits",      key |-> "commits"],
    [icon |-> "shuffle", label |-> "Total PRs",          key |-> "prs"],
    [icon |-> "red",     label |-> "Total Issues",       key |-> "issues"],
    [icon |-> "package", label |-> "Contributed to",     key |-> "contributed_to"] >>

card_width  == 495
card_height == 195
padding_x   == 25
ring_r      == 40

\* 2 * 3.14159 * ring_r, in thousandths (251.327)
ring_circumference == (2 * 314159 * ring_r) \div 100

\* ring_circumference * (1 - rank_score) formatted with :.1f, in tenths
progress_offset(score) ==
    LET a == SCORE_ONE - score
        x == (a \div 1000) * ring_circumference
             + ((a % 1000) * ring_circumference) \div 1000
    IN  (x + SCORE_ONE \div 20) \div (SCORE_ONE \div 10)

rank_colors(label) ==
    CASE label \in {"S+", "S"}        -> "#FFD700"
      [] label \in {"A++", "A+", "A"} -> "#F5A623"
      [] label \in {"B+", "B"}        -> "#4CAF50"
      [] label = "C"                  -> "#9f9f9f"
      [] OTHER                        -> "#F5A623"

\* the loop over enumerate(items) from index i (0-based), one <g> per item
RECURSIVE stat_rows(_, _)
stat_rows(st, i) ==
    IF i >= Len(items) THEN <<>>
    ELSE <<[tag   |-> "g",
            x     |-> padding_x,
            y     |-> 72 + i * 25,
            icon  |-> items[i + 1].icon,
            label |-> items[i + 1].label,
            value |-> format_number(st[items[i + 1].key])]>>
         \o stat_rows(st, i + 1)

rank_badge(rank) ==
    LET ring_cx == card_width - 70
        ring_cy == card_height \div 2 + 8
    IN  << [tag |-> "circle", class |-> "", cx |-> ring_cx, cy |-> ring_cy,
            r |-> ring_r, stroke |-> "#333333"],
           [tag |-> "circle", class |-> "rank-ring", cx |-> ring_cx,
            cy |-> ring_cy, r |-> ring_r, stroke |-> rank_colors(rank.label),
            dasharray |-> ring_circumference,
            dashoffset |-> progress_offset(rank.score)],
           [tag |-> "text", class |-> "rank-text", x |-> ring_cx, y |-> ring_cy,
            font_size |-> IF Len(rank.label) <= 2 THEN 28 ELSE 22,
            fill |-> rank_colors(rank.label), text |-> rank.label] >>

\* the ring filled by score in place of 1 - score
generate_svg_inverted(st) ==
    LET rank == calculate_rank(st)
    IN  [width  |-> card_width,
         height |-> card_height,
         title  |-> st.name,
         rows   |-> stat_rows(st, 0),
         badge  |-> rank_badge([label |-> rank.label,
                                score |-> SCORE_ONE - rank.score])]

generate_svg(st) ==
    LET rank == calculate_rank(st)
    IN  [width  |-> card_width,
         height |-> card_height,
         title  |-> st.name,
         rows   |-> stat_rows(st, 0),
         badge  |-> rank_badge(rank)]

-----------------------------------------------------------------------------
(* log_norm on successive values *)

IdleRun ==
    /\ pc = "idle" /\ token = "unset" /\ output_path = <<>>
    /\ stats = NoStats /\ rank_label = "" /\ rank_score = NotYet
    /\ svg = NoSvg /\ net_calls = 0 /\ dirs = {} /\ files = <<>>
    /\ error = "none" /\ exit_code = Running

IdleLn   == ln_metric = 1 /\ ln_value = 0 /\ ln_sub = NotYet /\ ln_prev = NotYet
IdleFmt  == fmt_n = 0 /\ fmt_out = <<>>
IdleFact == readme = <<>> /\ new_fact = 0 /\ fact_runs = 0

InitLogNorm ==
    /\ ln_metric \in 1..Len(METRICS)
    /\ ln_value = 0
    /\ ln_sub = NotYet
    /\ ln_prev = NotYet
    /\ IdleFmt /\ IdleRun /\ IdleFact

LogNormFirst ==
    /\ ln_sub = NotYet
    /\ ln_sub' = log_norm(ln_value, METRICS[ln_metric].median,
                          METRICS[ln_metric].spread10)
    /\ UNCHANGED <<ln_metric, ln_value, ln_prev, fmtVars, runVars, factVars>>

LogNormNext ==
    /\ ln_sub # NotYet
    /\ ln_value < MaxValue
    /\ ln_value' = ln_value + 1
    /\ ln_prev' = ln_sub
    /\ ln_sub' = log_norm(ln_value + 1, METRICS[ln_metric].median,
                          METRICS[ln_metric].spread10)
    /\ UNCHANGED <<ln_metric, fmtVars, runVars, factVars>>

NextLogNorm == LogNormFirst \/ LogNormNext

SpecLogNorm == InitLogNorm /\ [][NextLogNorm]_vars

\* C3: log_norm is non-decreasing in value over the non-negative integers,
\* the step from 0 to 1 included, and every result lies in [0, 1].
LogNormMonotoneBounded ==
    /\ ln_sub # NotYet => (0 <= ln_sub /\ ln_sub <= SCALE)
    /\ ln_prev # NotYet => ln_prev <= ln_sub

\* the step from value 0 (sub-score 0) to value 1 (a positive sub-score)
LogNormStepFromZero ==
    ln_value = 1 /\ ln_prev = 0 /\ ln_sub > 0 /\ ln_sub < SCALE \div 2

-----------------------------------------------------------------------------
(* format_number on sampled arguments *)

MaxPlain == 1100        \* every n in 0..MaxPlain is formatted
MaxSteps == 120         \* number of sampled arguments above each threshold

FormatSamples ==
    (0..MaxPlain)
    \cup {1000 + 25 * i : i \in 0..MaxSteps}
    \cup {999900 + i : i \in 0..100}
    \cup {1000000 + 25000 * i : i \in 0..MaxSteps}
    \cup {1500, 2500000, 123456789}

InitFormat ==
    /\ fmt_n \in FormatSamples
    /\ fmt_out = <<>>
    /\ IdleLn /\ IdleRun /\ IdleFact

FormatNumber ==
    /\ fmt_out = <<>>
    /\ fmt_out' = format_number(fmt_n)
    /\ UNCHANGED <<fmt_n, lnVars, runVars, factVars>>

NextFormat == FormatNumber

SpecFormat == InitFormat /\ [][NextFormat]_vars

-----------------------------------------------------------------------------
(* fetch_github_stats *)

username == "suraj-yadav0"      \* default of GITHUB_USERNAME

\* data["data"]["user"] of the responses the model draws from; name "" is a
\* null name, nodes are the stargazer counts of the owned repositories
Users == {
    [name |-> "", nodes |-> <<>>, totalCommit |-> 0, restricted |-> 0,
     prs |-> 0, issues |-> 0, contributed |-> 0, reviews |-> 0,
     followers |-> 0, repos |-> 0],
    [name |-> "Suraj", nodes |-> <<30, 20>>, totalCommit |-> 200,
     restricted |-> 50, prs |-> 50, issues |-> 25, contributed |-> 5,
     reviews |-> 10, followers |-> 10, repos |-> 2],
    [name |-> "Suraj", nodes |-> <<1200, 300, 0>>, totalCommit |-> 999,
     restricted |-> 1, prs |-> 120, issues |-> 7, contributed |-> 40,
     reviews |-> 3, followers |-> 2500000, repos |-> 3],
    [name |-> "Suraj", nodes |-> <<BigValue>>, totalCommit |-> BigValue,
     restricted |-> 0, prs |-> BigValue, issues |-> BigValue,
     contributed |-> BigValue, reviews |-> BigValue,
     followers |-> BigValue, repos |-> 1] }

RECURSIVE Sum(_)
Sum(seq) == IF seq = <<>> THEN 0 ELSE Head(seq) + Sum(Tail(seq))

\* the dict built from a response without errors
fetch_github_stats(login, user) ==
    [name           |-> IF user.name = "" THEN login ELSE user.name,
     stars          |-> Sum(user.nodes),
     commits        |-> user.totalCommit + user.restricted,
     prs            |-> user.prs,
     issues         |-> user.issues,
     contributed_to |-> user.contributed,
     reviews        |-> user.reviews,
     followers      |-> user.followers,
     repos          |-> user.repos]

-----------------------------------------------------------------------------
(* main *)

\* values of OUTPUT_PATH, as path components
Paths == { <<"assets", "stats.svg">>,
           <<"out", "img", "stats.svg">>,
           <<"stats.svg">> }

\* os.path.dirname
dirname(path) == SubSeq(path, 1, Len(path) - 1)

\* the directories os.makedirs(d, exist_ok=True) leaves in existence
makedirs(d) == {SubSeq(d, 1, i) : i \in 1..Len(d)}

Init ==
    /\ pc = "start"
    /\ token \in {"unset", "", "ghp"}
    /\ output_path \in Paths
    /\ dirs \in {{}, {<<"assets">>}}
    /\ stats = NoStats /\ rank_label = "" /\ rank_score = NotYet
    /\ svg = NoSvg /\ net_calls = 0 /\ files = <<>>
    /\ error = "none" /\ exit_code = Running
    /\ IdleLn /\ IdleFmt /\ IdleFact

\* sys.exit(1), or an uncaught exception ending the interpreter
Die(why) ==
    /\ error' = why
    /\ exit_code' = 1
    /\ pc' = "done"

\* if not token: print; sys.exit(1)
TokenMissing ==
    /\ pc = "start"
    /\ token \in {"unset", ""}
    /\ Die("no_token")
    /\ UNCHANGED <<token, output_path, stats, rank_label, rank_score, svg,
                   net_calls, dirs, files, lnVars, fmtVars, factVars>>

TokenPresent ==
    /\ pc = "start"
    /\ token \notin {"unset", ""}
    /\ pc' = "fetch"
    /\ UNCHANGED <<token, output_path, stats, rank_label, rank_score, svg,
                   net_calls, dirs, files, error, exit_code,
                   lnVars, fmtVars, factVars>>

\* urlopen answers 200 and the body has no "errors"
FetchOk ==
    /\ pc = "fetch"
    /\ net_calls' = net_calls + 1
    /\ \E user \in Users : stats' = fetch_github_stats(username, user)
    /\ pc' = "rank"
    /\ UNCHANGED <<token, output_path, rank_label, rank_score, svg, dirs,
                   files, error, exit_code, lnVars, fmtVars, factVars>>

\* the HTTPError handler printing and then going on without sys.exit(1)
FetchHttpError_continue ==
    /\ pc = "fetch"
    /\ net_calls' = net_calls + 1
    /\ error' = "http"
    /\ \E user \in Users : stats' = fetch_github_stats(username, user)
    /\ pc' = "rank"
    /\ UNCHANGED <<token, output_path, rank_label, rank_score, svg, dirs,
                   files, exit_code, lnVars, fmtVars, factVars>>

\* urlopen raises HTTPError: print; sys.exit(1)
FetchHttpError ==
    /\ pc = "fetch"
    /\ net_calls' = net_calls + 1
    /\ Die("http")
    /\ UNCHANGED <<token, output_path, stats, rank_label, rank_score, svg,
                   dirs, files, lnVars, fmtVars, factVars>>

\* the body carries "errors": print; sys.exit(1)
FetchGraphQLErrors ==
    /\ pc = "fetch"
    /\ net_calls' = net_calls + 1
    /\ Die("graphql")
    /\ UNCHANGED <<token, output_path, stats, rank_label, rank_score, svg,
                   dirs, files, lnVars, fmtVars, factVars>>

\* urlopen raises URLError, which nothing catches: traceback, status 1
FetchUrlError ==
    /\ pc = "fetch"
    /\ net_calls' = net_calls + 1
    /\ Die("uncaught_url_error")
    /\ UNCHANGED <<token, output_path, stats, rank_label, rank_score, svg,
                   dirs, files, lnVars, fmtVars, factVars>>

\* rank_label, rank_score = calculate_rank(stats); print
PrintRank ==
    /\ pc = "rank"
    /\ rank_label' = calculate_rank(stats).label
    /\ rank_score' = calculate_rank(stats).score
    /\ pc' = "render"
    /\ UNCHANGED <<token, output_path, stats, svg, net_calls, dirs, files,
                   error, exit_code, lnVars, fmtVars, factVars>>

\* svg = generate_svg(stats)
Render ==
    /\ pc = "render"
    /\ svg' = generate_svg(stats)
    /\ pc' = "makedirs"
    /\ UNCHANGED <<token, output_path, stats, rank_label, rank_score,
                   net_calls, dirs, files, error, exit_code,
                   lnVars, fmtVars, factVars>>

\* os.makedirs(os.path.dirname(output_path), exist_ok=True);
\* os.makedirs("") raises FileNotFoundError, which nothing catches
MakeDirs ==
    /\ pc = "makedirs"
    /\ dirname(output_path) # <<>>
    /\ dirs' = dirs \cup makedirs(dirname(output_path))
    /\ pc' = "write"
    /\ UNCHANGED <<token, output_path, stats, rank_label, rank_score, svg,
                   net_calls, files, error, exit_code,
                   lnVars, fmtVars, factVars>>

MakeDirsFails ==
    /\ pc = "makedirs"
    /\ dirname(output_path) = <<>>
    /\ Die("uncaught_file_not_found")
    /\ UNCHANGED <<token, output_path, stats, rank_label, rank_score, svg,
                   net_calls, dirs, files, lnVars, fmtVars, factVars>>

\* with open(output_path, "w") as f: f.write(svg)
WriteFile ==
    /\ pc = "write"
    /\ files' = Append(files, [path |-> output_path, content |-> svg])
    /\ pc' = "exit"
    /\ UNCHANGED <<token, output_path, stats, rank_label, rank_score, svg,
                   net_calls, dirs, error, exit_code,
                   lnVars, fmtVars, factVars>>

\* print; main returns and the interpreter exits with status 0
Exit ==
    /\ pc = "exit"
    /\ exit_code' = 0
    /\ pc' = "done"
    /\ UNCHANGED <<token, output_path, stats, rank_label, rank_score, svg,
                   net_calls, dirs, files, error, lnVars, fmtVars, factVars>>

Next ==
    \/ TokenMissing \/ TokenPresent
    \/ FetchOk \/ FetchHttpError \/ FetchGraphQLErrors \/ FetchUrlError
    \/ PrintRank \/ Render
    \/ MakeDirs \/ MakeDirsFails \/ WriteFile \/ Exit

Spec == Init /\ [][Next]_vars

-----------------------------------------------------------------------------
(* calculate_rank and generate_svg over sampled stats: main from the point *)
(* where fetch_github_stats has returned, up to the rendered card          *)

Samples(median) == {0, 1, median, BigValue}

CardStats ==
    [name : {"Suraj"},
     commits : Samples(250), prs : Samples(50), issues : Samples(25),
     reviews : Samples(10), stars : Samples(50), followers : Samples(10),
     contributed_to : Samples(5), repos : {1}]

InitCard ==
    /\ pc = "rank"
    /\ token = "ghp"
    /\ output_path = <<"assets", "stats.svg">>
    /\ dirs = {}
    /\ stats \in CardStats
    /\ rank_label = "" /\ rank_score = NotYet
    /\ svg = NoSvg /\ net_calls = 1 /\ files = <<>>
    /\ error = "none" /\ exit_code = Running
    /\ IdleLn /\ IdleFmt /\ IdleFact

NextCard == PrintRank \/ Render

SpecCard == InitCard /\ [][NextCard]_vars

-----------------------------------------------------------------------------
(* Properties of calculate_rank, checked under SpecCard *)

Labels == {"S+", "S", "A++", "A+", "A", "B+", "B", "C"}

Ranked == rank_score # NotYet

\* C1: label selection is total and follows the thresholds scanned from the
\* highest: every score gets exactly one label of Labels, the label of the
\* first threshold it meets or exceeds, and "C" below 0.20.
RankLabelTotal ==
    Ranked =>
        /\ rank_label \in Labels
        /\ (rank_label = "S+")  <=> (rank_score >= 95 * SCALE)
        /\ (rank_label = "S")   <=> (rank_score >= 85 * SCALE /\ rank_score < 95 * SCALE)
        /\ (rank_label = "A++") <=> (rank_score >= 75 * SCALE /\ rank_score < 85 * SCALE)
        /\ (rank_label = "A+")  <=> (rank_score >= 65 * SCALE /\ rank_score < 75 * SCALE)
        /\ (rank_label = "A")   <=> (rank_score >= 50 * SCALE /\ rank_score < 65 * SCALE)
        /\ (rank_label = "B+")  <=> (rank_score >= 35 * SCALE /\ rank_score < 50 * SCALE)
        /\ (rank_label = "B")   <=> (rank_score >= 20 * SCALE /\ rank_score < 35 * SCALE)
        /\ (rank_label = "C")   <=> (rank_score < 20 * SCALE)

\* a score strictly between two thresholds, and one below the lowest
RankLabelBetween ==
    Ranked /\ rank_label = "B+" /\ rank_score > 35 * SCALE
           /\ rank_score < 50 * SCALE

\* C2: for non-negative integer metrics the score returned by
\* calculate_rank lies in [0, 1].
RankScoreInUnitInterval ==
    Ranked => (0 <= rank_score /\ rank_score <= SCORE_ONE)

\* a user above every median gets a score near the top of the interval
RankScoreHigh ==
    Ranked /\ rank_score > 99 * SCALE /\ rank_score <= SCORE_ONE
           /\ \A i \in 1..Len(METRICS) : stats[METRICS[i].key] = BigValue

MedianStats ==
    /\ stats # NoStats
    /\ stats.commits = 250 /\ stats.prs = 50 /\ stats.issues = 25
    /\ stats.reviews = 10 /\ stats.stars = 50 /\ stats.followers = 10
    /\ stats.contributed_to = 5

\* C5: at the medians every sub-score is 0.5, the weights sum to 1.0, the
\* composite score is 0.5 and the label is "A".
MedianUserIsA ==
    /\ Sum([i \in 1..Len(METRICS) |-> METRICS[i].weight]) = 100
    /\ (Ranked /\ MedianStats) =>
           /\ \A i \in 1..Len(METRICS) :
                  2 * log_norm(stats[METRICS[i].key], METRICS[i].median,
                               METRICS[i].spread10) = SCALE
           /\ 2 * rank_score = SCORE_ONE
           /\ rank_label = "A"

MedianUserRanked == Ranked /\ MedianStats /\ pc = "render"

-----------------------------------------------------------------------------
(* Properties of generate_svg, checked under SpecCard *)

Rendered == svg # NoSvg

RowYs == <<72, 97, 122, 147, 172>>
RowKeys == <<"stars", "commits", "prs", "issues", "contributed_to">>
RowLabels == <<"Total Stars Earned", "Total Commits", "Total PRs",
               "Total Issues", "Contributed to">>

ProgressRings == {i \in DOMAIN svg.badge : svg.badge[i].class = "rank-ring"}

\* score in thousandths, rounded down
ScoreMilli == rank_score \div (SCORE_ONE \div 1000)

\* C9: the card has exactly five metric rows, stars, commits, PRs, issues,
\* contributed-to at y = 72, 97, 122, 147, 172, and exactly one progress
\* ring, whose stroke-dashoffset is circumference * (1 - score) (to the
\* printed tenth) and so lies between 0 and the circumference.
CardRowsAndRing ==
    Rendered =>
        /\ Len(svg.rows) = 5
        /\ \A i \in 1..5 :
               /\ svg.rows[i].y = RowYs[i]
               /\ svg.rows[i].label = RowLabels[i]
               /\ svg.rows[i].value = format_number(stats[RowKeys[i]])
        /\ Cardinality(ProgressRings) = 1
        /\ \A i \in ProgressRings :
               /\ svg.badge[i].dashoffset >= 0
               /\ 100 * svg.badge[i].dashoffset <= ring_circumference + 50
               /\ 1000 * svg.badge[i].dashoffset
                      <= 2514 * (1000 - ScoreMilli) + 1000
               /\ 1000 * svg.badge[i].dashoffset
                      >= 2513 * (999 - ScoreMilli) - 1000

\* a card whose ring is partly filled
CardPartlyFilled ==
    /\ Rendered
    /\ rank_score > 20 * SCALE /\ rank_score < 35 * SCALE
    /\ \E i \in ProgressRings :
           svg.badge[i].dashoffset > 1600 /\ svg.badge[i].dashoffset < 2100

-----------------------------------------------------------------------------
(* Properties of format_number, checked under SpecFormat *)

Formatted == fmt_out # <<>>

DigitValue(c) == CHOOSE d \in 0..9 : DIGITS[d + 1] = c

IsDigit(c) == \E d \in 0..9 : DIGITS[d + 1] = c

\* the number a sequence of digit characters denotes
RECURSIVE Parse(_)
Parse(cs) == IF cs = <<>> THEN 0
             ELSE 10 * Parse(SubSeq(cs, 1, Len(cs) - 1)) + DigitValue(cs[Len(cs)])

AllDigits(cs) == cs # <<>> /\ \A i \in 1..Len(cs) : IsDigit(cs[i])

\* cs is "<digits>.<digit><suffix>" and denotes n / unit to one decimal
\* place: it is within half a tenth of n / unit
IsOneDecimalOf(cs, n, unit, suffix) ==
    LET l == Len(cs)
    IN  /\ l >= 4
        /\ cs[l] = suffix
        /\ IsDigit(cs[l - 1])
        /\ cs[l - 2] = "."
        /\ AllDigits(SubSeq(cs, 1, l - 3))
        /\ (l - 3 > 1 => cs[1] # "0")
        /\ LET t == 10 * Parse(SubSeq(cs, 1, l - 3)) + DigitValue(cs[l - 1])
               whole == t \div 10
               frac  == t % 10
               \* t * unit / 10 - n, computed without leaving 32 bits
               diff  == (whole - n \div unit) * unit + frac * (unit \div 10)
                        - (n % unit)
           IN  /\ whole - n \div unit \in {0, 1}
               /\ 20 * diff <= unit
               /\ 20 * diff >= 0 - unit

\* C4: format_number(n) is the decimal string of n below 1000, n/1000 with
\* one decimal and "k" from 1000, n/1,000,000 with one decimal and "M" from
\* 1,000,000; 999 -> "999", 1500 -> "1.5k", 2500000 -> "2.5M".
FormatNumberShape ==
    Formatted =>
        /\ fmt_n < 1000 =>
               /\ AllDigits(fmt_out)
               /\ Parse(fmt_out) = fmt_n
               /\ (Len(fmt_out) > 1 => fmt_out[1] # "0")
        /\ (fmt_n >= 1000 /\ fmt_n < 1000000) =>
               IsOneDecimalOf(fmt_out, fmt_n, 1000, "k")
        /\ fmt_n >= 1000000 =>
               IsOneDecimalOf(fmt_out, fmt_n, 1000000, "M")
        /\ fmt_n = 999 => fmt_out = <<"9", "9", "9">>
        /\ fmt_n = 1500 => fmt_out = <<"1", ".", "5", "k">>
        /\ fmt_n = 2500000 => fmt_out = <<"2", ".", "5", "M">>

\* the first abbreviated value
FormatNumberAtThousand ==
    fmt_n = 1000 /\ fmt_out = <<"1", ".", "0", "k">>

-----------------------------------------------------------------------------
(* Properties of a run of main, checked under Spec *)

ReportedFailures == {"no_token", "http", "graphql"}

\* C6: a run that ends in a failure (missing token, HTTP error, GraphQL
\* errors) terminates at once with a non-zero status, writes nothing, and
\* with a missing token makes no network call.
FailFast ==
    error \in ReportedFailures =>
        /\ pc = "done"
        /\ exit_code # Running /\ exit_code # 0
        /\ files = <<>>
        /\ svg = NoSvg
        /\ net_calls <= 1
        /\ (error = "no_token" => net_calls = 0)

\* a run ended by an HTTP error after its one network call
HttpFailure ==
    error = "http" /\ pc = "done" /\ exit_code = 1 /\ net_calls = 1

\* C7: with the token present and a fetch without errors the run makes
\* exactly one network call, creates the missing parent directories,
\* writes the SVG exactly once to OUTPUT_PATH and exits with status 0,
\* whatever OUTPUT_PATH is.
SuccessfulRunWritesCard ==
    (pc = "done" /\ token \notin {"unset", ""} /\ stats # NoStats) =>
        /\ exit_code = 0
        /\ net_calls = 1
        /\ Len(files) = 1
        /\ files[1].path = output_path
        /\ files[1].content = svg
        /\ makedirs(dirname(output_path)) \subseteq dirs

-----------------------------------------------------------------------------
(* update_fact.update_readme *)

NumFacts == 30                  \* len(CS_FACTS)

\* the facts, by position in the list; none contains "**", a backslash or
\* a newline
CS_FACTS == 1..NumFacts

\* the facts whose text begins with a digit: "90% of the world's currency
\* only exists on computers."
DigitLed == {14}

\* the template "\\1{new_fact}\\2" compiles unless the fact begins with a
\* digit: then the group reference reads \19, and re.sub raises re.error
\* ("invalid group reference 19") before it looks at the content
template_compiles(f) == f \notin DigitLed

\* A line of README.md is one of
\*   text    any line matching neither pattern
\*   anchor  "- (mailbox) How to reach me **surajyadav200701@gmail.com**"
\*   fact    "- (zap) Fun fact **<payload>**"; payload 0 is a text that is
\*           not in CS_FACTS
TextLine     == [kind |-> "text", payload |-> 0]
AnchorLine   == [kind |-> "anchor", payload |-> 0]
FactLine(f)  == [kind |-> "fact", payload |-> f]

InitialLines == {TextLine, AnchorLine, FactLine(0), FactLine(1)}

RECURSIVE SeqsUpTo(_, _)
SeqsUpTo(S, n) ==
    IF n = 0 THEN {<<>>}
    ELSE LET shorter == SeqsUpTo(S, n - 1)
         IN  shorter \cup {Append(q, x) : q \in shorter, x \in S}

\* re.sub(pattern, replacement, content): the payload of every fact line
\* becomes new_fact
sub_fact(content, f) ==
    [i \in DOMAIN content |->
        IF content[i].kind = "fact" THEN FactLine(f) ELSE content[i]]

\* re.sub(email_pattern, "\\1\n- (zap) Fun fact **new_fact**", content):
\* a fact line is added after every anchor line
RECURSIVE sub_email(_, _)
sub_email(content, f) ==
    IF content = <<>> THEN <<>>
    ELSE (IF Head(content).kind = "anchor"
          THEN <<Head(content), FactLine(f)>>
          ELSE <<Head(content)>>)
         \o sub_email(Tail(content), f)

\* the text written back for the fact picked
update_readme(content, f) ==
    LET updated_content == sub_fact(content, f)
    IN  IF updated_content = content THEN sub_email(content, f)
        ELSE updated_content

InitFact ==
    /\ readme \in SeqsUpTo(InitialLines, MaxLines) \ {<<>>}
    /\ new_fact = 0
    /\ fact_runs = 0
    /\ IdleLn /\ IdleFmt /\ IdleRun

\* one run of the script: read, random.choice, substitute, write back
UpdateReadme ==
    /\ fact_runs < MaxRuns
    /\ \E f \in CS_FACTS :
           /\ template_compiles(f)
           /\ new_fact' = f
           /\ readme' = update_readme(readme, f)
    /\ fact_runs' = fact_runs + 1
    /\ UNCHANGED <<lnVars, fmtVars, runVars>>

\* one run of the script that picks a fact re.sub raises on: the exception
\* is not caught, and README.md is never opened for writing
UpdateReadmeRaises ==
    /\ fact_runs < MaxRuns
    /\ \E f \in CS_FACTS :
           /\ ~template_compiles(f)
           /\ new_fact' = f
    /\ fact_runs' = fact_runs + 1
    /\ UNCHANGED <<readme, lnVars, fmtVars, runVars>>

NextFact == UpdateReadme \/ UpdateReadmeRaises

SpecFact == InitFact /\ [][NextFact]_vars

HasMarker(content) == \E i \in DOMAIN content : content[i].kind = "fact"
HasAnchor(content) == \E i \in DOMAIN content : content[i].kind = "anchor"
MarkerCount(content) ==
    Cardinality({i \in DOMAIN content : content[i].kind = "fact"})

\* C8: when the marker line is present its payload is replaced in place by
\* the chosen fact and no line is added or removed; a fact line is inserted
\* (right after the anchor line) only when the marker is absent.
FactReplacedInPlace ==
    [][ fact_runs' = fact_runs + 1 =>
          /\ HasMarker(readme) =>
                 /\ Len(readme') = Len(readme)
                 /\ \A i \in DOMAIN readme :
                        readme'[i] = IF readme[i].kind = "fact"
                                     THEN FactLine(new_fact')
                                     ELSE readme[i]
          /\ Len(readme') # Len(readme) =>
                 /\ ~HasMarker(readme)
                 /\ readme' = sub_email(readme, new_fact') ]_vars

\* C10: from a README with the anchor line and exactly one marker line,
\* every run, whatever fact it picks, leaves exactly one marker line and the
\* same number of lines.
OneMarkerKept ==
    [][ (HasAnchor(readme) /\ MarkerCount(readme) = 1) =>
            (MarkerCount(readme') = 1 /\ Len(readme') = Len(readme)) ]_vars

====
